---- MODULE Spec2Model ----
(***************************************************************************)
(* A model of EmployeeScheduler (src/employee_scheduler.py): the three     *)
(* dictionaries of the object, add_employee_preference as one atomic call, *)
(* and create_schedule as the sequence of its loop iterations (one step    *)
(* per preference visited in the first pass, one step per iteration or     *)
(* exit of the fill loop in the second pass).                              *)
(***************************************************************************)
EXTENDS Integers, Sequences, FiniteSets, TLC

\* ------------------------------------------------------------------------
\* Module-level constants of the program
\* ------------------------------------------------------------------------

DAYS ==
    <<"Monday", "Tuesday", "Wednesday", "Thursday", "Friday", "Saturday", "Sunday">>

SHIFTS ==
    <<"Morning", "Afternoon", "Evening">>

MIN_EMPLOYEES_PER_SHIFT ==
    2

MAX_DAYS_PER_WEEK ==
    5

\* ------------------------------------------------------------------------
\* Bounds of the explored call sequences
\* ------------------------------------------------------------------------

\* Spec: at most this many preferences are recorded in all.
MaxPrefs ==
    3

\* Spec: at most this many create_schedule calls are made.
MaxCreates ==
    2

\* SpecFair: at most this many preferences are recorded in all.
MaxFairPrefs ==
    2

\* SpecWeek: at most this many preferences are recorded in all.
MaxWeekPrefs ==
    7

\* SpecThree: at most this many preferences are recorded in all.
MaxThreePrefs ==
    3

\* Spec: the arguments the callers pass: the valid calls, and one call
\* with an invalid day and one with an invalid shift for every name.
Names ==
    {"Alice", "Bob"}

InputDays ==
    {"Monday", "Sunday"}

InputShifts ==
    {"Morning", "Evening"}

Calls ==
    (Names \X InputDays \X InputShifts)
        \cup {<<name, "Funday", "Morning">> : name \in Names}
        \cup {<<name, "Monday", "Night">> : name \in Names}

\* SpecWeek: Carl records any day of the week, Bob only Monday/Morning.
WeekNames ==
    {"Carl", "Bob"}

WeekShifts ==
    {"Morning", "Evening"}

\* SpecThree: three employees record their preferences one after the other.
ThreeNames ==
    <<"Alice", "Bob", "Carl">>

ThreeShifts ==
    {"Morning", "Evening"}

\* ------------------------------------------------------------------------
\* State
\* ------------------------------------------------------------------------

VARIABLES
    preferences,    \* self.preferences: insertion-ordered dict, as a sequence
                    \* of [name, prefs], prefs a sequence of [day, shift]
    schedule,       \* self.schedule[day][shift]: the roster, a sequence
    days_worked,    \* self.days_worked: a function on the recorded names
    pc,             \* "idle", or the pass create_schedule is in
    emp_idx,        \* pass 1: position of the outer loop in preferences
    pref_idx,       \* pass 1: position of the inner loop in prefs
    day_idx,        \* pass 2: position of the outer loop in DAYS
    shift_idx,      \* pass 2: position of the inner loop in SHIFTS
    current_count,  \* pass 2: the local variable current_count
    call,           \* arguments of the last add_employee_preference call
    ret,            \* return value of the last completed call
    creates,        \* number of create_schedule calls made so far
    gave_up,        \* slots whose fill loop ended by break in the last call
    at_call         \* while create_schedule runs: whether no
                    \* add_employee_preference call came since the last
                    \* create_schedule call and, during the first pass,
                    \* schedule and days_worked as they were at the call

vars ==
    <<preferences, schedule, days_worked, pc, emp_idx, pref_idx, day_idx,
      shift_idx, current_count, call, ret, creates, gave_up, at_call>>

\* ------------------------------------------------------------------------
\* Helpers: list membership and dictionary lookups
\* ------------------------------------------------------------------------

Range(s) ==
    {s[i] : i \in DOMAIN s}

\* The keys of self.preferences, in insertion order.
EmployeeKeys ==
    [i \in 1..Len(preferences) |-> preferences[i].name]

\* Position of name among the keys of self.preferences.
KeyIndex(name) ==
    CHOOSE i \in 1..Len(preferences) : preferences[i].name = name

\* self.preferences[name], as a sequence of [day, shift].
PrefsOf(name) ==
    preferences[KeyIndex(name)].prefs

\* day in self.preferences[name]
HasPreference(name, day) ==
    /\ name \in Range(EmployeeKeys)
    /\ \E k \in 1..Len(PrefsOf(name)) : PrefsOf(name)[k].day = day

\* self.preferences[name][day]
PreferenceOf(name, day) ==
    LET p == PrefsOf(name)
    IN  p[CHOOSE k \in 1..Len(p) : p[k].day = day].shift

\* Number of preference entries held in all.
TotalPrefs ==
    LET RECURSIVE Sum(_)
        Sum(i) == IF i = 0 THEN 0 ELSE Len(preferences[i].prefs) + Sum(i - 1)
    IN  Sum(Len(preferences))

\* ------------------------------------------------------------------------
\* __init__
\* ------------------------------------------------------------------------

\* Mutant of InitSchedule: the loop of line 38 stops one day short.
InitScheduleOneDayShort ==
    [day \in Range(SubSeq(DAYS, 1, Len(DAYS) - 1)) |->
        [shift \in {"Morning", "Afternoon", "Evening"} |-> <<>>]]

\* The value of at_call while create_schedule is not running.
NoCall ==
    [schedule |-> <<>>, days_worked |-> <<>>, repeat |-> FALSE]

InitSchedule ==
    [day \in Range(DAYS) |->
        [shift \in {"Morning", "Afternoon", "Evening"} |-> <<>>]]

Init ==
    /\ preferences = <<>>
    /\ schedule = InitSchedule
    /\ days_worked = <<>>
    /\ pc = "idle"
    /\ emp_idx = 0
    /\ pref_idx = 0
    /\ day_idx = 0
    /\ shift_idx = 0
    /\ current_count = 0
    /\ call = <<>>
    /\ ret = "None"
    /\ creates = 0
    /\ gave_up = {}
    /\ at_call = NoCall

\* ------------------------------------------------------------------------
\* add_employee_preference
\* ------------------------------------------------------------------------

ValidDay(day) ==
    day \in Range(DAYS)

ValidShift(shift) ==
    shift \in Range(SHIFTS)

\* Mutant of WithEmployee: the test of line 58 is missing for the counter,
\* which is set to 0 on every call.
WithEmployeeResetCounter(name) ==
    IF name \in Range(EmployeeKeys)
    THEN [p |-> preferences,
          w |-> [e \in DOMAIN days_worked |->
                    IF e = name THEN 0 ELSE days_worked[e]]]
    ELSE [p |-> Append(preferences, [name |-> name, prefs |-> <<>>]),
          w |-> (name :> 0) @@ days_worked]

\* Lines 57-60: the dictionaries after "initialize employee if not exists".
WithEmployee(name) ==
    IF name \in Range(EmployeeKeys)
    THEN [p |-> preferences, w |-> days_worked]
    ELSE [p |-> Append(preferences, [name |-> name, prefs |-> <<>>]),
          w |-> (name :> 0) @@ days_worked]

\* Mutant of StorePreference: the check of lines 63-65 is missing, so a
\* second preference for the day overwrites the first.
StorePreferenceOverwrite(name, day, shift) ==
    LET init == WithEmployee(name)
        i    == CHOOSE k \in 1..Len(init.p) : init.p[k].name = name
        old  == init.p[i].prefs
    IN  /\ preferences' =
               [init.p EXCEPT ![i].prefs =
                   IF \E k \in 1..Len(old) : old[k].day = day
                   THEN [k \in 1..Len(old) |->
                            IF old[k].day = day
                            THEN [day |-> day, shift |-> shift]
                            ELSE old[k]]
                   ELSE Append(old, [day |-> day, shift |-> shift])]
        /\ days_worked' = init.w
        /\ ret' = "True"

\* Lines 62-71 on the initialised dictionaries: reject a second preference
\* for the day, else store the preference.
StorePreference(name, day, shift) ==
    LET init == WithEmployee(name)
        i    == CHOOSE k \in 1..Len(init.p) : init.p[k].name = name
    IN  IF \E k \in 1..Len(init.p[i].prefs) : init.p[i].prefs[k].day = day
        THEN /\ preferences' = init.p
             /\ days_worked' = init.w
             /\ ret' = "False"
        ELSE /\ preferences' =
                    [init.p EXCEPT ![i].prefs =
                        Append(@, [day |-> day, shift |-> shift])]
             /\ days_worked' = init.w
             /\ ret' = "True"

\* Mutant of AddEmployeePreference: the employee is initialised before the
\* day and the shift are validated.
AddEmployeePreferenceInitFirst(name, day, shift) ==
    /\ pc = "idle"
    /\ call' = <<name, day, shift>>
    /\ IF ~ValidDay(day) \/ ~ValidShift(shift)
       THEN /\ ret' = "False"
            /\ preferences' = WithEmployee(name).p
            /\ days_worked' = WithEmployee(name).w
       ELSE StorePreference(name, day, shift)
    /\ UNCHANGED <<schedule, pc, emp_idx, pref_idx, day_idx, shift_idx,
                   current_count, creates, gave_up, at_call>>

AddEmployeePreference(name, day, shift) ==
    /\ pc = "idle"
    /\ call' = <<name, day, shift>>
    /\ IF ~ValidDay(day) \/ ~ValidShift(shift)
       THEN /\ ret' = "False"
            /\ UNCHANGED <<preferences, days_worked>>
       ELSE StorePreference(name, day, shift)
    /\ UNCHANGED <<schedule, pc, emp_idx, pref_idx, day_idx, shift_idx,
                   current_count, creates, gave_up, at_call>>

\* ------------------------------------------------------------------------
\* create_schedule
\* ------------------------------------------------------------------------

\* Mutant of AtMaxDays: > in place of >=.
AtMaxDaysOffByOne(employee) ==
    days_worked[employee] > MAX_DAYS_PER_WEEK

\* Lines 83 and 135: the employee has reached the weekly maximum.
AtMaxDays(employee) ==
    days_worked[employee] >= MAX_DAYS_PER_WEEK

\* Mutant of AlreadyScheduled: only the first shift of the day is looked at.
AlreadyScheduledFirstShiftOnly(employee, day) ==
    employee \in Range(schedule[day][SHIFTS[1]])

\* Lines 88-92 and 139-143: the employee is on one of the day's rosters.
AlreadyScheduled(employee, day) ==
    \E k \in 1..Len(SHIFTS) : employee \in Range(schedule[day][SHIFTS[k]])

\* Mutant of Assign: the increment of lines 100 and 122 is missing.
AssignNoCount(employee, day, shift) ==
    /\ schedule' = [schedule EXCEPT ![day][shift] = Append(@, employee)]
    /\ days_worked' = days_worked

\* Lines 99-100 and 121-122: append to the roster, count the day.
Assign(employee, day, shift) ==
    /\ schedule' = [schedule EXCEPT ![day][shift] = Append(@, employee)]
    /\ days_worked' = [days_worked EXCEPT ![employee] = @ + 1]

\* Mutant of FindAvailableEmployees: the test of lines 138-146 is missing.
FindAvailableEmployeesAnyDay(day) ==
    SelectSeq(EmployeeKeys, LAMBDA employee : ~AtMaxDays(employee))

\* Mutant of FindAvailableEmployees: the test of lines 135-136 is missing.
FindAvailableEmployeesNoCap(day) ==
    SelectSeq(EmployeeKeys, LAMBDA employee : ~AlreadyScheduled(employee, day))

\* Mutant of FindAvailableEmployees: the first key of self.preferences is
\* left out of the loop of line 133.
FindAvailableEmployeesSkipFirst(day) ==
    SelectSeq(IF EmployeeKeys = <<>> THEN <<>> ELSE Tail(EmployeeKeys),
              LAMBDA employee :
                  ~AtMaxDays(employee) /\ ~AlreadyScheduled(employee, day))

\* Mutant of FindAvailableEmployees: the loop of line 139 looks only at the
\* roster of the shift being filled.
FindAvailableEmployeesThisShift(day) ==
    SelectSeq(EmployeeKeys,
              LAMBDA employee :
                  /\ ~AtMaxDays(employee)
                  /\ \/ shift_idx \notin DOMAIN SHIFTS
                     \/ employee \notin Range(schedule[day][SHIFTS[shift_idx]]))

\* Lines 129-148.
FindAvailableEmployees(day) ==
    SelectSeq(EmployeeKeys,
              LAMBDA employee :
                  ~AtMaxDays(employee) /\ ~AlreadyScheduled(employee, day))

\* Mutant of NeedsMore: the loop runs for one employee more.
NeedsMoreOneExtra(count) ==
    count < MIN_EMPLOYEES_PER_SHIFT + 1

\* Mutant of NeedsMore: the loop stops one employee short.
NeedsMoreOffByOne(count) ==
    count < MIN_EMPLOYEES_PER_SHIFT - 1

\* Line 111: the condition of the fill loop.
NeedsMore(count) ==
    count < MIN_EMPLOYEES_PER_SHIFT

\* Mutant of CreateSchedule: the call starts by setting every counter to 0.
CreateScheduleResetCounters ==
    /\ pc = "idle"
    /\ pc' = "pass1"
    /\ emp_idx' = 1
    /\ pref_idx' = 1
    /\ creates' = creates + 1
    /\ call' = <<>>
    /\ ret' = "None"
    /\ gave_up' = {}
    /\ at_call' = [schedule |-> schedule, days_worked |-> days_worked,
                   repeat |-> (creates >= 1 /\ call = <<>>)]
    /\ days_worked' = [e \in DOMAIN days_worked |-> 0]
    /\ UNCHANGED <<preferences, schedule, day_idx, shift_idx, current_count>>

\* The call: execution enters the first pass.
CreateSchedule ==
    /\ pc = "idle"
    /\ pc' = "pass1"
    /\ emp_idx' = 1
    /\ pref_idx' = 1
    /\ creates' = creates + 1
    /\ call' = <<>>
    /\ ret' = "None"
    /\ gave_up' = {}
    /\ at_call' = [schedule |-> schedule, days_worked |-> days_worked,
                   repeat |-> (creates >= 1 /\ call = <<>>)]
    /\ UNCHANGED <<preferences, schedule, days_worked, day_idx, shift_idx,
                   current_count>>

\* Mutant of Pass1Step: the shift of line 99 is drawn at random.
Pass1StepAnyShift ==
    /\ pc = "pass1"
    /\ emp_idx <= Len(preferences)
    /\ LET employee == preferences[emp_idx].name
           prefs    == preferences[emp_idx].prefs
           day      == prefs[pref_idx].day
       IN  /\ IF AtMaxDays(employee)
              THEN UNCHANGED <<schedule, days_worked>>
              ELSE IF AlreadyScheduled(employee, day)
                   THEN UNCHANGED <<schedule, days_worked>>
                   ELSE \E k \in DOMAIN SHIFTS : Assign(employee, day, SHIFTS[k])
           /\ IF pref_idx < Len(prefs)
              THEN /\ pref_idx' = pref_idx + 1
                   /\ emp_idx' = emp_idx
              ELSE /\ pref_idx' = 1
                   /\ emp_idx' = emp_idx + 1
    /\ UNCHANGED <<preferences, pc, day_idx, shift_idx, current_count, call,
                   ret, creates, gave_up, at_call>>

\* Mutant of Pass1Step: a preference for a roster that already holds
\* MIN_EMPLOYEES_PER_SHIFT employees is skipped.
Pass1StepShiftCap ==
    /\ pc = "pass1"
    /\ emp_idx <= Len(preferences)
    /\ LET employee == preferences[emp_idx].name
           prefs    == preferences[emp_idx].prefs
           day      == prefs[pref_idx].day
           preferred_shift == prefs[pref_idx].shift
       IN  /\ IF AtMaxDays(employee)
              THEN UNCHANGED <<schedule, days_worked>>
              ELSE IF \/ AlreadyScheduled(employee, day)
                      \/ ~NeedsMore(Len(schedule[day][preferred_shift]))
                   THEN UNCHANGED <<schedule, days_worked>>
                   ELSE Assign(employee, day, preferred_shift)
           /\ IF pref_idx < Len(prefs)
              THEN /\ pref_idx' = pref_idx + 1
                   /\ emp_idx' = emp_idx
              ELSE /\ pref_idx' = 1
                   /\ emp_idx' = emp_idx + 1
    /\ UNCHANGED <<preferences, pc, day_idx, shift_idx, current_count, call,
                   ret, creates, gave_up, at_call>>

\* Lines 79-101: one iteration of the inner loop of the first pass.
Pass1Step ==
    /\ pc = "pass1"
    /\ emp_idx <= Len(preferences)
    /\ LET employee == preferences[emp_idx].name
           prefs    == preferences[emp_idx].prefs
           day      == prefs[pref_idx].day
           preferred_shift == prefs[pref_idx].shift
       IN  /\ IF AtMaxDays(employee)
              THEN UNCHANGED <<schedule, days_worked>>
              ELSE IF AlreadyScheduled(employee, day)
                   THEN UNCHANGED <<schedule, days_worked>>
                   ELSE Assign(employee, day, preferred_shift)
           /\ IF pref_idx < Len(prefs)
              THEN /\ pref_idx' = pref_idx + 1
                   /\ emp_idx' = emp_idx
              ELSE /\ pref_idx' = 1
                   /\ emp_idx' = emp_idx + 1
    /\ UNCHANGED <<preferences, pc, day_idx, shift_idx, current_count, call,
                   ret, creates, gave_up, at_call>>

\* Lines 103-108: the first pass is over, the fill pass starts at the
\* first slot.
Pass1Done ==
    /\ pc = "pass1"
    /\ emp_idx > Len(preferences)
    /\ pc' = "fill"
    /\ emp_idx' = 0
    /\ pref_idx' = 0
    /\ day_idx' = 1
    /\ shift_idx' = 1
    /\ current_count' = Len(schedule[DAYS[1]][SHIFTS[1]])
    /\ at_call' = [NoCall EXCEPT !.repeat = at_call.repeat]
    /\ UNCHANGED <<preferences, schedule, days_worked, call, ret, creates,
                   gave_up>>

\* Lines 106-108 and 127: the loops move to the next slot, or the call
\* returns after the last one. sched is the schedule the next slot is read
\* from.
NextSlot(sched) ==
    IF shift_idx < Len(SHIFTS)
    THEN /\ shift_idx' = shift_idx + 1
         /\ day_idx' = day_idx
         /\ current_count' = Len(sched[DAYS[day_idx]][SHIFTS[shift_idx + 1]])
         /\ UNCHANGED <<pc, ret, at_call>>
    ELSE IF day_idx < Len(DAYS)
         THEN /\ shift_idx' = 1
              /\ day_idx' = day_idx + 1
              /\ current_count' = Len(sched[DAYS[day_idx + 1]][SHIFTS[1]])
              /\ UNCHANGED <<pc, ret, at_call>>
         ELSE /\ shift_idx' = 0
              /\ day_idx' = 0
              /\ current_count' = 0
              /\ pc' = "idle"
              /\ ret' = "None"
              /\ at_call' = NoCall

\* Lines 111-125: one iteration of the fill loop that assigns an employee.
FillAssign ==
    /\ pc = "fill"
    /\ NeedsMore(current_count)
    /\ LET day       == DAYS[day_idx]
           shift     == SHIFTS[shift_idx]
           available == FindAvailableEmployees(day)
       IN  /\ available # <<>>
           /\ \E k \in 1..Len(available) :
                  Assign(available[k], day, shift)
    /\ current_count' = current_count + 1
    /\ UNCHANGED <<preferences, pc, emp_idx, pref_idx, day_idx, shift_idx,
                   call, ret, creates, gave_up, at_call>>

\* Mutant of FillGiveUp: the break of line 117 is missing, the loop goes
\* round again with the same empty pool.
FillGiveUpNoBreak ==
    /\ pc = "fill"
    /\ NeedsMore(current_count)
    /\ FindAvailableEmployees(DAYS[day_idx]) = <<>>
    /\ UNCHANGED vars

\* Lines 113-117: the pool is empty, the loop breaks.
FillGiveUp ==
    /\ pc = "fill"
    /\ NeedsMore(current_count)
    /\ FindAvailableEmployees(DAYS[day_idx]) = <<>>
    /\ gave_up' = gave_up \cup {<<DAYS[day_idx], SHIFTS[shift_idx]>>}
    /\ NextSlot(schedule)
    /\ UNCHANGED <<preferences, schedule, days_worked, emp_idx, pref_idx,
                   call, creates>>

\* Line 111: the loop condition is false, the loop ends.
FillDone ==
    /\ pc = "fill"
    /\ ~NeedsMore(current_count)
    /\ NextSlot(schedule)
    /\ UNCHANGED <<preferences, schedule, days_worked, emp_idx, pref_idx,
                   call, creates, gave_up>>

CreateScheduleStep ==
    \/ Pass1Step
    \/ Pass1Done
    \/ FillAssign
    \/ FillGiveUp
    \/ FillDone

\* ------------------------------------------------------------------------
\* Specifications
\* ------------------------------------------------------------------------

\* Spec: two employees record preferences for Monday and Sunday, in any
\* order and interleaved with up to MaxCreates create_schedule calls.
AddCall ==
    /\ TotalPrefs < MaxPrefs
    /\ \E c \in Calls : AddEmployeePreference(c[1], c[2], c[3])

CreateCall ==
    /\ creates < MaxCreates
    /\ CreateSchedule

Next ==
    \/ AddCall
    \/ CreateCall
    \/ CreateScheduleStep

Spec ==
    Init /\ [][Next]_vars

\* SpecWeek: a fresh scheduler and one create_schedule call. Carl records
\* up to a whole week, starting on any day and going on day after day
\* (Sunday is followed by Monday), so that the recording order is not the
\* week order; Bob records at most Monday/Morning, before or after Carl.
DayIndex(day) ==
    CHOOSE i \in 1..Len(DAYS) : DAYS[i] = day

WeekCalls ==
    {c \in WeekNames \X Range(DAYS) \X WeekShifts :
        IF c[1] = "Bob"
        THEN c[2] = "Monday" /\ c[3] = "Morning"
        ELSE \/ c[1] \notin Range(EmployeeKeys)
             \/ LET p == PrefsOf(c[1])
                IN  c[2] = DAYS[(DayIndex(p[Len(p)].day) % Len(DAYS)) + 1]}

WeekAddCall ==
    /\ creates = 0
    /\ TotalPrefs < MaxWeekPrefs
    /\ \E c \in WeekCalls : AddEmployeePreference(c[1], c[2], c[3])

WeekCreateCall ==
    /\ creates = 0
    /\ CreateSchedule

NextWeek ==
    \/ WeekAddCall
    \/ WeekCreateCall
    \/ CreateScheduleStep

SpecWeek ==
    Init /\ [][NextWeek]_vars

\* A fresh scheduler on which up to three employees record their
\* preferences as main does, employee after employee, each from Monday on
\* day after day, before the one create_schedule call.
ThreeCalls ==
    {c \in Range(ThreeNames) \X Range(DAYS) \X ThreeShifts :
        LET n == Len(preferences)
        IN  \/ /\ n < Len(ThreeNames)
               /\ c[1] = ThreeNames[n + 1]
               /\ c[2] = DAYS[1]
            \/ /\ n > 0
               /\ c[1] = preferences[n].name
               /\ LET p == preferences[n].prefs
                  IN  c[2] = DAYS[(DayIndex(p[Len(p)].day) % Len(DAYS)) + 1]}

ThreeAddCall ==
    /\ creates = 0
    /\ TotalPrefs < MaxThreePrefs
    /\ \E c \in ThreeCalls : AddEmployeePreference(c[1], c[2], c[3])

NextThree ==
    \/ ThreeAddCall
    \/ WeekCreateCall
    \/ CreateScheduleStep

SpecThree ==
    Init /\ [][NextThree]_vars

\* ------------------------------------------------------------------------
\* Properties
\* ------------------------------------------------------------------------

\* The (day, shift) pairs of the week.
Slots ==
    Range(DAYS) \X Range(SHIFTS)

Roster(day, shift) ==
    schedule[day][shift]

\* Number of entries of employee on the three rosters of day.
Occurrences(employee, day) ==
    LET Count(r) == Cardinality({i \in 1..Len(r) : r[i] = employee})
    IN  Count(Roster(day, "Morning")) + Count(Roster(day, "Afternoon"))
            + Count(Roster(day, "Evening"))

\* The employees on some roster of day.
OnDay(day) ==
    UNION {Range(Roster(day, shift)) : shift \in Range(SHIFTS)}

\* create_schedule has returned at least once and is not running.
Returned ==
    pc = "idle" /\ creates >= 1

\* C1: no employee is on more than one roster of a day, or twice on one
\* roster, in any reachable state.
NoDoubleBooking ==
    \A day \in Range(DAYS) : \A employee \in OnDay(day) :
        Occurrences(employee, day) = 1

\* C1 witness: after a second create_schedule call an employee is on
\* Monday/Evening by preference while the fill of the understaffed
\* Monday/Morning roster left that employee out.
NoDoubleBookingWitness ==
    /\ pc = "idle"
    /\ creates = 2
    /\ \E e \in Range(EmployeeKeys) :
           /\ HasPreference(e, "Monday")
           /\ PreferenceOf(e, "Monday") = "Evening"
           /\ e \in Range(Roster("Monday", "Evening"))
           /\ Len(Roster("Monday", "Morning")) = 1
           /\ <<"Monday", "Morning">> \in gave_up

\* C2: no employee's days_worked exceeds 5 in any reachable state.
DayCap ==
    \A employee \in DOMAIN days_worked :
        days_worked[employee] <= 5

\* C2 witness: after a second create_schedule call an employee at 5 days
\* has a preference for a day on which the employee is on no roster.
DayCapWitness ==
    /\ pc = "idle"
    /\ creates = 2
    /\ \E e \in Range(EmployeeKeys) :
           /\ days_worked[e] = 5
           /\ HasPreference(e, "Sunday")
           /\ e \notin OnDay("Sunday")

\* C3: a recorded preference keeps its shift in every later state, and a
\* further add_employee_preference for the same employee and day returns
\* False and leaves the preferences as they are.
PreferenceImmutable ==
    [][/\ \/ preferences' = preferences
          \/ \A i \in 1..Len(preferences) :
                 \A k \in 1..Len(preferences[i].prefs) :
                     LET e == preferences[i].name
                         d == preferences[i].prefs[k].day
                     IN  /\ HasPreference(e, d)'
                         /\ PreferenceOf(e, d)' = preferences[i].prefs[k].shift
       /\ (/\ pc = "idle"
           /\ pc' = "idle"
           /\ HasPreference(call'[1], call'[2]))
              => (ret' = "False" /\ preferences' = preferences)
      ]_vars

\* C3 witness: a call naming another shift for a day the employee has a
\* preference for has returned False, after a create_schedule call.
PreferenceImmutableWitness ==
    /\ pc = "idle"
    /\ creates >= 1
    /\ call # <<>>
    /\ ret = "False"
    /\ ValidShift(call[3])
    /\ HasPreference(call[1], call[2])
    /\ PreferenceOf(call[1], call[2]) # call[3]

\* C4: a call that returns False had an invalid day, an invalid shift or a
\* day the employee already had a preference for, and leaves preferences,
\* schedule and days_worked as they were.
RejectionKeepsState ==
    [][(pc = "idle" /\ pc' = "idle" /\ ret' = "False") =>
          /\ UNCHANGED <<preferences, schedule, days_worked>>
          /\ \/ ~ValidDay(call'[2])
             \/ ~ValidShift(call'[3])
             \/ HasPreference(call'[1], call'[2])
      ]_vars

\* C4 witness: a call with an invalid day for an unknown employee has
\* returned False while another employee is recorded.
RejectionKeepsStateWitness ==
    /\ pc = "idle"
    /\ call # <<>>
    /\ ret = "False"
    /\ ~ValidDay(call[2])
    /\ preferences # <<>>
    /\ call[1] \notin Range(EmployeeKeys)
    /\ call[1] \notin DOMAIN days_worked

\* C5: once create_schedule has returned, every roster has at least 2
\* employees or its fill loop gave up, and the fill loop gives up on a slot
\* only when the available pool of the slot's day is empty.
FillGuarantee ==
    /\ [](Returned =>
             \A slot \in Slots :
                 Len(Roster(slot[1], slot[2])) >= 2 \/ slot \in gave_up)
    /\ [][(pc = "fill" /\ gave_up' # gave_up) =>
             /\ gave_up' = gave_up \cup {<<DAYS[day_idx], SHIFTS[shift_idx]>>}
             /\ FindAvailableEmployees(DAYS[day_idx]) = <<>>
             /\ Len(Roster(DAYS[day_idx], SHIFTS[shift_idx])) < 2
         ]_vars

\* C5 witness: create_schedule has returned with one roster filled to 2 by
\* the fill loop and another left with one employee.
FillGuaranteeWitness ==
    /\ Returned
    /\ \E slot \in Slots :
           /\ Len(Roster(slot[1], slot[2])) = 1
           /\ slot \in gave_up
    /\ \E slot \in Slots :
           /\ Len(Roster(slot[1], slot[2])) = 2
           /\ \E e \in Range(Roster(slot[1], slot[2])) :
                  ~HasPreference(e, slot[1])

\* The one preference of scenario A is all that is recorded, and the first
\* create_schedule call has returned.
ScenarioA(e) ==
    /\ pc = "idle"
    /\ creates = 1
    /\ preferences =
           <<[name |-> e,
              prefs |-> <<[day |-> "Monday", shift |-> "Morning"]>>]>>

\* C6 as stated: in scenario A the Monday/Morning roster is exactly the
\* employee and the employee's days_worked is 1.
ScenarioAOneDay ==
    \A e \in WeekNames :
        ScenarioA(e) =>
            /\ Roster("Monday", "Morning") = <<e>>
            /\ days_worked[e] = 1

\* C6 amended: in scenario A the Monday/Morning roster is exactly the
\* employee and the employee's days_worked is 5, the fill pass having put
\* the employee alone on the Morning roster of Tuesday to Friday.
ScenarioAFiveDays ==
    \A e \in WeekNames :
        ScenarioA(e) =>
            /\ Roster("Monday", "Morning") = <<e>>
            /\ days_worked[e] = 5
            /\ \A i \in 2..5 : Roster(DAYS[i], "Morning") = <<e>>
            /\ \A i \in 6..7 : e \notin OnDay(DAYS[i])

\* C6 witness: scenario A has been run.
ScenarioAWitness ==
    \E e \in WeekNames : ScenarioA(e)

\* C7: after the one create_schedule call on a fresh scheduler, an employee
\* with 6 or more preferences is on the preferred roster of the first five
\* days recorded, on no roster of the later ones, on a roster on exactly 5
\* days, and has days_worked 5.
CapOnPreferences ==
    (pc = "idle" /\ creates = 1) =>
        \A i \in 1..Len(preferences) :
            LET e == preferences[i].name
                p == preferences[i].prefs
            IN  Len(p) >= 6 =>
                    /\ days_worked[e] = 5
                    /\ \A k \in 1..Len(p) :
                           IF k <= 5
                           THEN e \in Range(Roster(p[k].day, p[k].shift))
                           ELSE e \notin OnDay(p[k].day)
                    /\ Cardinality({d \in Range(DAYS) : e \in OnDay(d)}) = 5

\* C7 witness: the call has returned for an employee recorded second, with
\* 6 preferences recorded from Wednesday on, the sixth being Monday.
CapOnPreferencesWitness ==
    /\ pc = "idle"
    /\ creates = 1
    /\ Len(preferences) = 2
    /\ Len(preferences[2].prefs) >= 6
    /\ preferences[2].prefs[1].day = "Wednesday"
    /\ preferences[2].prefs[6].day = "Monday"

\* The (day, shift) pairs self.schedule holds.
ScheduleSlots ==
    UNION {{<<day, shift>> : shift \in DOMAIN schedule[day]} :
               day \in DOMAIN schedule}

\* C8: the schedule holds exactly the 21 slots of 7 days x 3 shifts in
\* every reachable state, and every roster is empty until create_schedule
\* is first called.
SlotCompleteness ==
    /\ DOMAIN schedule = Range(DAYS)
    /\ \A day \in DOMAIN schedule : DOMAIN schedule[day] = Range(SHIFTS)
    /\ Cardinality(ScheduleSlots) = 21
    /\ creates = 0 =>
           \A slot \in ScheduleSlots : Roster(slot[1], slot[2]) = <<>>

\* C8 witness: two create_schedule calls have returned and rosters are
\* filled.
SlotCompletenessWitness ==
    /\ pc = "idle"
    /\ creates = 2
    /\ Len(Roster("Monday", "Morning")) = 2
    /\ Len(Roster("Friday", "Morning")) = 2

\* SpecFair: the calls of Spec with at most MaxFairPrefs preferences, and
\* create_schedule, once called, runs on (the program is single-threaded
\* and synchronous).
FairAddCall ==
    /\ TotalPrefs < MaxFairPrefs
    /\ \E c \in Calls : AddEmployeePreference(c[1], c[2], c[3])

NextFair ==
    \/ FairAddCall
    \/ CreateCall
    \/ CreateScheduleStep

SpecFair ==
    Init /\ [][NextFair]_vars /\ WF_vars(CreateScheduleStep)

\* C9: every create_schedule call returns.
Termination ==
    (pc # "idle") ~> (pc = "idle")

\* C9 witness: a call has returned after its fill loop gave up on a Monday
\* slot and then assigned employees on a later day.
TerminationWitness ==
    /\ Returned
    /\ <<"Monday", "Afternoon">> \in gave_up
    /\ \E e \in Range(Roster("Tuesday", "Morning")) :
           ~HasPreference(e, "Tuesday")

\* C10: a step of add_employee_preference changes no roster and no counter
\* of a known employee, and adds a counter only as a zero entry for the
\* employee named by a valid call; rosters and counters change only in
\* steps of create_schedule.
AddFrame ==
    [][/\ (pc = "idle" /\ pc' = "idle") =>
              /\ schedule' = schedule
              /\ \A e \in DOMAIN days_worked :
                     /\ e \in DOMAIN days_worked'
                     /\ days_worked'[e] = days_worked[e]
              /\ \A e \in (DOMAIN days_worked') \ (DOMAIN days_worked) :
                     /\ e = call'[1]
                     /\ days_worked'[e] = 0
                     /\ ValidDay(call'[2])
                     /\ ValidShift(call'[3])
       /\ (schedule' # schedule \/ days_worked' # days_worked) =>
              \/ pc \in {"pass1", "fill"}
              \/ pc = "idle" /\ pc' = "idle" /\ ret' = "True"
      ]_vars

\* C10 witness: after a create_schedule call that left an employee with 5
\* days, that employee has recorded a further preference.
AddFrameWitness ==
    /\ pc = "idle"
    /\ creates >= 1
    /\ call # <<>>
    /\ ret = "True"
    /\ call[1] \in DOMAIN days_worked
    /\ days_worked[call[1]] = 5

\* Number of entries of employee on all the rosters of the week.
RosterEntries(employee) ==
    LET RECURSIVE Sum(_)
        Sum(i) == IF i = 0 THEN 0 ELSE Occurrences(employee, DAYS[i]) + Sum(i - 1)
    IN  Sum(Len(DAYS))

\* C15: in every reachable state the counter of every recorded employee
\* equals the number of days on which the employee is on some roster, which
\* is also the number of roster entries of the employee.
CounterConsistency ==
    /\ DOMAIN days_worked = Range(EmployeeKeys)
    /\ \A e \in Range(EmployeeKeys) :
           /\ days_worked[e] = Cardinality({day \in Range(DAYS) : e \in OnDay(day)})
           /\ days_worked[e] = RosterEntries(e)

\* C15 witness: in the fill pass of a call one employee stands at 3 days
\* while another stands at 5.
CounterConsistencyWitness ==
    /\ pc = "fill"
    /\ \E e1, e2 \in Range(EmployeeKeys) :
           /\ days_worked[e1] = 3
           /\ days_worked[e2] = 5

\* C14: within one create_schedule call, once the fill pass has left a slot
\* below 2 employees, it assigns nobody to a later shift of the same day.
FillOrderPriority ==
    [][(pc = "fill" /\ schedule' # schedule) =>
           \A day \in Range(DAYS) : \A k1, k2 \in DOMAIN SHIFTS :
               (/\ k1 < k2
                /\ schedule'[day][SHIFTS[k2]] # schedule[day][SHIFTS[k2]]) =>
                   /\ Len(schedule[day][SHIFTS[k1]]) >= 2
                   /\ <<day, SHIFTS[k1]>> \notin gave_up
      ]_vars

\* C14 witness: a call has returned after its fill loop gave up on a
\* Morning roster of one employee, and the later rosters of that day are
\* empty.
FillOrderPriorityWitness ==
    /\ Returned
    /\ \E day \in Range(DAYS) :
           /\ <<day, "Morning">> \in gave_up
           /\ Len(Roster(day, "Morning")) = 1
           /\ Roster(day, "Afternoon") = <<>>
           /\ Roster(day, "Evening") = <<>>

\* create_schedule has returned and nothing was called since.
JustReturned ==
    Returned /\ call = <<>>

\* C17: in the state in which create_schedule returns, for every slot with
\* fewer than 2 employees every recorded employee has days_worked = 5 or is
\* on some roster of the slot's day.
ShortfallGenuine ==
    JustReturned =>
        \A slot \in Slots :
            Len(Roster(slot[1], slot[2])) < 2 =>
                \A e \in Range(EmployeeKeys) :
                    days_worked[e] = 5 \/ e \in OnDay(slot[1])

\* C17 witness: create_schedule returns with two recorded employees, a day
\* with a short roster on which one of them works and the other, at 5 days,
\* does not.
ShortfallGenuineWitness ==
    /\ JustReturned
    /\ \E slot \in Slots : \E e1, e2 \in Range(EmployeeKeys) :
           /\ Len(Roster(slot[1], slot[2])) < 2
           /\ e1 \in OnDay(slot[1])
           /\ e2 \notin OnDay(slot[1])
           /\ days_worked[e2] = 5

\* The positions of a sequence hold distinct elements.
NoDuplicates(s) ==
    \A i, j \in DOMAIN s : s[i] = s[j] => i = j

\* C18: _find_available_employees(day) returns exactly the recorded
\* employees with days_worked < 5 that are on none of the day's rosters,
\* each once, in the order in which they were first recorded; the fill
\* loop that calls it changes nothing when the list is empty, and
\* otherwise only appends one employee of the list to the roster being
\* filled and counts that employee's day.
AvailablePool ==
    /\ [](\A day \in Range(DAYS) :
             LET available == FindAvailableEmployees(day)
             IN  /\ Range(available) =
                        {e \in Range(EmployeeKeys) :
                            days_worked[e] < 5 /\ e \notin OnDay(day)}
                 /\ NoDuplicates(available)
                 /\ \A i, j \in DOMAIN available :
                        i < j => KeyIndex(available[i]) < KeyIndex(available[j]))
    /\ [][(pc = "fill" /\ NeedsMore(current_count)) =>
             LET day       == DAYS[day_idx]
                 shift     == SHIFTS[shift_idx]
                 available == FindAvailableEmployees(day)
             IN  /\ preferences' = preferences
                 /\ IF available = <<>>
                    THEN schedule' = schedule /\ days_worked' = days_worked
                    ELSE \E e \in Range(available) :
                             /\ schedule' = [schedule EXCEPT ![day][shift] =
                                                 Append(@, e)]
                             /\ days_worked' = [days_worked EXCEPT ![e] = @ + 1]
         ]_vars

\* C18 witness: in the fill pass the pool of the day being filled holds
\* the second recorded employee only, the first one standing at 5 days,
\* while the pool of another day is empty because the second employee is
\* on one of its rosters.
AvailablePoolWitness ==
    /\ pc = "fill"
    /\ Len(preferences) = 2
    /\ days_worked[EmployeeKeys[1]] = 5
    /\ FindAvailableEmployees(DAYS[day_idx]) = <<EmployeeKeys[2]>>
    /\ \E day \in Range(DAYS) :
           /\ EmployeeKeys[2] \in OnDay(day)
           /\ FindAvailableEmployees(day) = <<>>

\* Lines 79-80: the (employee, day, preferred_shift) triples in the order
\* in which the two loops of the first pass visit them.
RECURSIVE Pass1Visits(_)
Pass1Visits(prefs) ==
    IF prefs = <<>>
    THEN <<>>
    ELSE [k \in 1..Len(Head(prefs).prefs) |->
             [employee |-> Head(prefs).name,
              day      |-> Head(prefs).prefs[k].day,
              shift    |-> Head(prefs).prefs[k].shift]]
         \o Pass1Visits(Tail(prefs))

\* Lines 79-101 as a function: the schedule and the counters the first
\* pass ends with when it visits the triples of visits starting from
\* sched and worked.
RECURSIVE Pass1Result(_, _, _)
Pass1Result(visits, sched, worked) ==
    IF visits = <<>>
    THEN [schedule |-> sched, days_worked |-> worked]
    ELSE LET v == Head(visits)
         IN  IF worked[v.employee] >= MAX_DAYS_PER_WEEK
             THEN Pass1Result(Tail(visits), sched, worked)
             ELSE IF \E k \in DOMAIN SHIFTS :
                         v.employee \in Range(sched[v.day][SHIFTS[k]])
                  THEN Pass1Result(Tail(visits), sched, worked)
                  ELSE Pass1Result(
                           Tail(visits),
                           [sched EXCEPT ![v.day][v.shift] = Append(@, v.employee)],
                           [worked EXCEPT ![v.employee] = @ + 1])

\* The first pass of the running call has visited every preference and
\* the fill pass has not started.
Pass1Ended ==
    pc = "pass1" /\ emp_idx > Len(preferences)

\* C11: the schedule and the counters at the end of the first pass are a
\* function of the recorded preferences and of the schedule and counters
\* at the call: two schedulers that agree on these agree at the end of
\* the first pass, whatever the random source gave.
Pass1Deterministic ==
    Pass1Ended =>
        LET result == Pass1Result(Pass1Visits(preferences),
                                  at_call.schedule, at_call.days_worked)
        IN  /\ schedule = result.schedule
            /\ days_worked = result.days_worked

\* C11 witness: the first pass of a second call ends after placing an
\* employee recorded since the first call, which had filled rosters by
\* random picks.
Pass1DeterministicWitness ==
    /\ Pass1Ended
    /\ creates = 2
    /\ Len(preferences) = 2
    /\ schedule # at_call.schedule
    /\ \E slot \in Slots : \E e \in Range(at_call.schedule[slot[1]][slot[2]]) :
           ~HasPreference(e, slot[1])

\* C16: a create_schedule call made with no add_employee_preference call
\* since the previous create_schedule call leaves schedule and days_worked
\* as that call left them: no step of it changes either.
Idempotence ==
    [][at_call.repeat =>
           /\ schedule' = schedule
           /\ days_worked' = days_worked
      ]_vars

\* C16 witness: a call repeated with nothing recorded in between is at the
\* last slot of its fill pass, with two employees at 5 days on the rosters.
IdempotenceWitness ==
    /\ pc = "fill"
    /\ at_call.repeat
    /\ day_idx = Len(DAYS)
    /\ shift_idx = Len(SHIFTS)
    /\ Len(preferences) = 2
    /\ \A e \in Range(EmployeeKeys) : days_worked[e] = 5

\* C12: on a fresh scheduler, once create_schedule has returned, every
\* employee with at most 5 recorded preferences is on the preferred roster
\* of every day recorded, however many employees that roster holds.
Pass1NoShiftCap ==
    (JustReturned /\ creates = 1) =>
        \A e \in Range(EmployeeKeys) :
            Len(PrefsOf(e)) <= 5 =>
                \A k \in 1..Len(PrefsOf(e)) :
                    e \in Range(Roster(PrefsOf(e)[k].day, PrefsOf(e)[k].shift))

\* C12 witness: the call has returned with three employees on the Monday
\* roster all three prefer.
Pass1NoShiftCapWitness ==
    /\ JustReturned
    /\ creates = 1
    /\ \E shift \in Range(SHIFTS) :
           /\ Len(Roster("Monday", shift)) = 3
           /\ Range(Roster("Monday", shift)) = Range(ThreeNames)
           /\ \A e \in Range(ThreeNames) : PreferenceOf(e, "Monday") = shift

\* C13: the fill pass appends to a roster only while it holds fewer than 2
\* employees, so an employee at the third or a later position of a roster
\* has a recorded preference for exactly that day and shift.
FillNeverOverstaffs ==
    /\ [](\A slot \in Slots :
             LET r == Roster(slot[1], slot[2])
             IN  \A i \in 3..Len(r) :
                     /\ HasPreference(r[i], slot[1])
                     /\ PreferenceOf(r[i], slot[1]) = slot[2])
    /\ [][(pc = "fill" /\ schedule' # schedule) =>
             LET day == DAYS[day_idx]
                 shift == SHIFTS[shift_idx]
             IN  /\ Len(schedule[day][shift]) < 2
                 /\ \E e \in Range(EmployeeKeys) :
                        schedule' = [schedule EXCEPT ![day][shift] = Append(@, e)]
         ]_vars

\* C13 witness: in the fill pass one roster holds three employees and
\* another was brought to 2 by an employee without a preference for its
\* day.
FillNeverOverstaffsWitness ==
    /\ pc = "fill"
    /\ \E slot \in Slots : Len(Roster(slot[1], slot[2])) = 3
    /\ \E slot \in Slots :
           /\ Len(Roster(slot[1], slot[2])) = 2
           /\ ~HasPreference(Roster(slot[1], slot[2])[2], slot[1])

====
